---------------------------- MODULE Spec2Model ----------------------------
(***************************************************************************)
(* Model of packages/fuels-test-helpers/src/node.rs: the hex codec         *)
(* (serde_hex, HexType, HexNumber), the chain-config assembler             *)
(* (CoinConfig, get_node_config_json) and the readiness poll               *)
(* (server_health_check).                                                  *)
(*                                                                         *)
(* Text is a sequence of one-character strings.  A byte is a number in     *)
(* 0..255.  A u64 is its four 16-bit limbs, most significant first (TLC's  *)
(* integers are 32 bits wide, so a u64 is never held as one integer); a    *)
(* BlockHeight (u32) is its two 16-bit limbs.  A Result is a record        *)
(* [ok |-> TRUE, val |-> v] or [ok |-> FALSE, err |-> kind], the kind      *)
(* naming the map_err / Err site that produced it.                         *)
(***************************************************************************)
EXTENDS Integers, Sequences, FiniteSets, TLC

VARIABLES
    \* serde_hex on a fixed-length byte type
    hexPc, hexSource, target, targetLen, raw_string, hexResult,
    \* HexNumber on u64 / BlockHeight
    numPc, numSource, number, numBytes, numText, numResult,
    \* CoinConfig and get_node_config_json
    cfgPc, coins, consensus_parameters_config, config, coin_config, coin_value,
    \* server_health_check
    healthPc, attempts, healthy, probes

hexVars == <<hexPc, hexSource, target, targetLen, raw_string, hexResult>>
numVars == <<numPc, numSource, number, numBytes, numText, numResult>>
cfgVars == <<cfgPc, coins, consensus_parameters_config, config, coin_config, coin_value>>
healthVars == <<healthPc, attempts, healthy, probes>>
vars == <<hexVars, numVars, cfgVars, healthVars>>

-----------------------------------------------------------------------------
(* Bounds of the model *)

\* longest raw text handed to a decoder
MaxText == 6
\* largest fixed length of a byte type T (Bytes32, Address, AssetId are 32)
MaxTargetLen == 2
\* longest byte string hex-encoded and handed to the number decoder
MaxNumBytes == 9
\* longest coin list handed to get_node_config_json
MaxCoins == 3

(* Program constants *)

\* fuel_vm::consts::WORD_SIZE
WORD_SIZE == 8
\* length of Bytes32, Address, AssetId
BYTES32_LEN == 32
\* let mut attempts = 5
INITIAL_ATTEMPTS == 5

-----------------------------------------------------------------------------
(* Values *)

Ok(v) == [ok |-> TRUE, val |-> v]
Err(kind) == [ok |-> FALSE, err |-> kind]

None == [some |-> FALSE]
Some(v) == [some |-> TRUE, val |-> v]

NoValue == "none"

\* characters a raw text is drawn from: a digit, both cases of a hex letter,
\* both cases of the prefix letter, a letter that is no hex digit
TextChars == {"0", "a", "A", "x", "X", "g"}
\* bytes the byte strings are drawn from
ByteSamples == {0, 10, 171, 255}
NumByteSamples == {0, 1, 255}
\* 16-bit limbs the numbers are drawn from
LimbSamples == {0, 1, 1000, 65535}

SeqsUpTo(S, n) == UNION {[1..k -> S] : k \in 0..n}

U64Samples == [1..4 -> LimbSamples]
HeightSamples == [1..2 -> LimbSamples]

-----------------------------------------------------------------------------
(* The hex crate, as serde_hex uses it *)

HEX_CHARS_LOWER ==
    <<"0", "1", "2", "3", "4", "5", "6", "7", "8", "9", "a", "b", "c", "d", "e", "f">>
HEX_CHARS_UPPER ==
    <<"0", "1", "2", "3", "4", "5", "6", "7", "8", "9", "A", "B", "C", "D", "E", "F">>

\* encode_hex with the two digits of a byte exchanged
RECURSIVE encode_hex_low_nibble_first(_)
encode_hex_low_nibble_first(bytes) ==
    IF bytes = <<>> THEN <<>>
    ELSE <<HEX_CHARS_LOWER[(Head(bytes) % 16) + 1],
           HEX_CHARS_LOWER[(Head(bytes) \div 16) + 1]>>
         \o encode_hex_low_nibble_first(Tail(bytes))

\* hex::encode_hex::<String>: two lowercase digits per byte, high nibble first
RECURSIVE encode_hex(_)
encode_hex(bytes) ==
    IF bytes = <<>> THEN <<>>
    ELSE <<HEX_CHARS_LOWER[(Head(bytes) \div 16) + 1],
           HEX_CHARS_LOWER[(Head(bytes) % 16) + 1]>> \o encode_hex(Tail(bytes))

\* val() that knows the lowercase digits only
val_lower_only(c) ==
    IF \E i \in 1..16 : HEX_CHARS_LOWER[i] = c
    THEN (CHOOSE i \in 1..16 : HEX_CHARS_LOWER[i] = c) - 1
    ELSE -1

\* hex's val(): the digit's value, -1 for a character that is no hex digit
val(c) ==
    IF \E i \in 1..16 : HEX_CHARS_LOWER[i] = c
    THEN (CHOOSE i \in 1..16 : HEX_CHARS_LOWER[i] = c) - 1
    ELSE IF \E i \in 11..16 : HEX_CHARS_UPPER[i] = c
    THEN (CHOOSE i \in 11..16 : HEX_CHARS_UPPER[i] = c) - 1
    ELSE -1

\* FromHex::from_hex for Vec<u8>: odd length is refused first, then any
\* character that is no hex digit
from_hex(s) ==
    IF Len(s) % 2 # 0 THEN Err("OddLength")
    ELSE IF \E i \in 1..Len(s) : val(s[i]) = -1 THEN Err("InvalidHexCharacter")
    ELSE Ok([i \in 1..(Len(s) \div 2) |-> val(s[2 * i - 1]) * 16 + val(s[2 * i])])

\* str::trim_start_matches("0x"): removes the pattern for as long as the text
\* starts with it
RECURSIVE trim_start_matches_0x(_)
trim_start_matches_0x(s) ==
    IF Len(s) >= 2 /\ s[1] = "0" /\ s[2] = "x"
    THEN trim_start_matches_0x(SubSeq(s, 3, Len(s)))
    ELSE s

\* The target type T of a decode: a byte type of fixed length n (Bytes32,
\* Address, AssetId), or Vec<u8>
FixedBytes(n) == [fixed |-> TRUE, len |-> n]
VecU8 == [fixed |-> FALSE]

\* T::try_from(&[u8]): a fixed-length type refuses every other length,
\* Vec<u8> takes any
try_from(bytes, T) ==
    IF T.fixed /\ Len(bytes) # T.len THEN Err("TryFromSliceError") ELSE Ok(bytes)

-----------------------------------------------------------------------------
(* mod serde_hex *)

\* serde_hex::serialize: format!("0x{}", target.encode_hex::<String>())
serde_hex_serialize(t) == <<"0", "x">> \o encode_hex(t)

\* serde_hex::deserialize::<T>
serde_hex_deserialize(raw, T) ==
    LET stripped_prefix == trim_start_matches_0x(raw)
        bytes == from_hex(stripped_prefix)
    IN  IF ~bytes.ok THEN Err("InvalidHex")
        ELSE LET result == try_from(bytes.val, T)
             IN  IF ~result.ok THEN Err("LengthMismatch") ELSE Ok(result.val)

\* HexType::serialize_as / HexType::deserialize_as: serde_hex, unchanged
HexType_serialize_as(value) == serde_hex_serialize(value)
HexType_deserialize_as(raw, T) == serde_hex_deserialize(raw, T)

-----------------------------------------------------------------------------
(* HexNumber *)

\* u64::to_le_bytes in place of to_be_bytes
to_le_bytes(v) ==
    [i \in 1..WORD_SIZE |->
        IF i % 2 = 1 THEN v[((WORD_SIZE - i) \div 2) + 1] % 256
        ELSE v[((WORD_SIZE - i) \div 2) + 1] \div 256]

\* u64::to_be_bytes: each limb gives its high byte, then its low byte
to_be_bytes(v) ==
    [i \in 1..WORD_SIZE |->
        IF i % 2 = 1 THEN v[(i + 1) \div 2] \div 256 ELSE v[i \div 2] % 256]

\* Word::from_be_bytes on exactly WORD_SIZE bytes
from_be_bytes(bytes) ==
    [j \in 1..(WORD_SIZE \div 2) |-> bytes[2 * j - 1] * 256 + bytes[2 * j]]

\* the padding chained after the bytes instead of before them
pad_to_word_right(bytes) ==
    bytes \o [i \in 1..(WORD_SIZE - Len(bytes)) |-> 0]

\* (0..WORD_SIZE - len).map(|_| 0u8).chain(bytes).collect()
pad_to_word(bytes) ==
    [i \in 1..(WORD_SIZE - Len(bytes)) |-> 0] \o bytes

\* u64::from(BlockHeight): zero extension of the u32
height_to_u64(h) == <<0, 0>> \o h

\* <HexNumber as SerializeAs<u64>>::serialize_as
HexNumber_serialize_as(value) ==
    LET bytes == to_be_bytes(value) IN serde_hex_serialize(bytes)

\* <HexNumber as SerializeAs<BlockHeight>>::serialize_as
HexNumber_serialize_as_height(value) ==
    LET n == height_to_u64(value) IN HexNumber_serialize_as(n)

\* deserialize_as without the length check: the low WORD_SIZE bytes are kept
HexNumber_deserialize_as_truncating(raw) ==
    LET bytes == serde_hex_deserialize(raw, VecU8)
    IN  IF ~bytes.ok THEN bytes
        ELSE IF Len(bytes.val) > WORD_SIZE
        THEN Ok(from_be_bytes(SubSeq(bytes.val, Len(bytes.val) - WORD_SIZE + 1, Len(bytes.val))))
        ELSE IF Len(bytes.val) < WORD_SIZE THEN Ok(from_be_bytes(pad_to_word(bytes.val)))
        ELSE Ok(from_be_bytes(bytes.val))

\* <HexNumber as DeserializeAs<Word>>::deserialize_as
HexNumber_deserialize_as(raw) ==
    LET bytes == serde_hex_deserialize(raw, VecU8)
    IN  IF ~bytes.ok THEN bytes
        ELSE IF Len(bytes.val) > WORD_SIZE THEN Err("Overflow")
        ELSE IF Len(bytes.val) < WORD_SIZE THEN Ok(from_be_bytes(pad_to_word(bytes.val)))
        ELSE Ok(from_be_bytes(bytes.val))

-----------------------------------------------------------------------------
(* serde_json values.  A string is JStr(text), null is JNull, a number is  *)
(* JNum(n); an object is a function from its keys; an array is a sequence. *)

JStr(text) == [json |-> "string", s |-> text]
JNum(n) == [json |-> "number", n |-> n]
JNull == [json |-> "null"]

\* The fields of CoinConfig, in declaration order
CoinConfigFields ==
    <<"tx_id", "output_index", "block_created", "maturity", "owner", "amount", "asset_id">>
OptionalFields == {"tx_id", "output_index", "block_created", "maturity"}
RequiredFields == {"owner", "amount", "asset_id"}

\* #[serde_as(as = ...)] of each field of CoinConfig, applied to the field's value
CoinConfig_field_text(field, v) ==
    CASE field = "tx_id" -> HexType_serialize_as(v)
      [] field = "output_index" -> HexNumber_serialize_as(v)
      [] field = "block_created" -> HexNumber_serialize_as_height(v)
      [] field = "maturity" -> HexNumber_serialize_as_height(v)
      [] field = "owner" -> HexType_serialize_as(v)
      [] field = "amount" -> HexNumber_serialize_as(v)
      [] field = "asset_id" -> HexType_serialize_as(v)

\* to_value without #[skip_serializing_none]: a None field is written as null
CoinConfig_to_value_with_nulls(cc) ==
    [k \in RequiredFields \cup OptionalFields |->
        IF k \in OptionalFields
        THEN IF cc[k].some THEN JStr(CoinConfig_field_text(k, cc[k].val)) ELSE JNull
        ELSE JStr(CoinConfig_field_text(k, cc[k]))]

\* serde_json::to_value(&CoinConfig): #[skip_serializing_none] leaves a None
\* field out; every field present is a string
CoinConfig_to_value(cc) ==
    LET present == RequiredFields \cup {f \in OptionalFields : cc[f].some}
    IN  [k \in present |->
            IF k \in OptionalFields
            THEN JStr(CoinConfig_field_text(k, cc[k].val))
            ELSE JStr(CoinConfig_field_text(k, cc[k]))]

\* serde_json::to_string(&Vec<Value>) of an array of objects, as its tokens:
\* "[", the objects separated by ",", "]"; an object is "{", one token per
\* key with its value, "}".  Keys are written in one fixed order.
object_tokens(obj) ==
    LET keys == SelectSeq(CoinConfigFields, LAMBDA k : k \in DOMAIN obj)
    IN  <<[t |-> "{"]>>
        \o [i \in 1..Len(keys) |-> [t |-> "kv", k |-> keys[i], v |-> obj[keys[i]]]]
        \o <<[t |-> "}"]>>

RECURSIVE array_items_tokens(_)
array_items_tokens(arr) ==
    IF arr = <<>> THEN <<>>
    ELSE IF Len(arr) = 1 THEN object_tokens(arr[1])
    ELSE object_tokens(arr[1]) \o <<[t |-> ","]>> \o array_items_tokens(Tail(arr))

to_string(arr) == <<[t |-> "["]>> \o array_items_tokens(arr) \o <<[t |-> "]"]>>

\* serde_json::from_str::<Value>: the array of objects the tokens spell, or a
\* syntax error
RECURSIVE parse_items(_, _, _)
parse_items(tokens, i, acc) ==
    IF i > Len(tokens) THEN Err("EofWhileParsingList")
    ELSE IF tokens[i].t = "]"
    THEN IF i = Len(tokens) THEN Ok(acc) ELSE Err("TrailingCharacters")
    ELSE IF tokens[i].t = "," /\ acc # <<>> /\ i < Len(tokens) /\ tokens[i + 1].t = "{"
    THEN parse_items(tokens, i + 1, acc)
    ELSE IF tokens[i].t = "{" /\ \E j \in (i + 1)..Len(tokens) : tokens[j].t = "}"
    THEN LET close == CHOOSE j \in (i + 1)..Len(tokens) :
                        /\ tokens[j].t = "}"
                        /\ \A m \in (i + 1)..(j - 1) : tokens[m].t # "}"
             inner == (i + 1)..(close - 1)
         IN  IF \E m \in inner : tokens[m].t # "kv" THEN Err("ExpectedObjectKey")
             ELSE LET keys == {tokens[m].k : m \in inner}
                      last(k) == CHOOSE m \in inner :
                                    /\ tokens[m].k = k
                                    /\ \A m2 \in inner : tokens[m2].k = k => m2 <= m
                  IN  parse_items(tokens, close + 1,
                                  Append(acc, [k \in keys |-> tokens[last(k)].v]))
    ELSE Err("ExpectedValue")

from_str(tokens) ==
    IF tokens = <<>> \/ tokens[1].t # "[" THEN Err("ExpectedValue")
    ELSE parse_items(tokens, 2, <<>>)

\* ConsensusParameters, by two of its fields; ConsensusParameters::default()
ConsensusParameters_default == [max_inputs |-> 255, max_gas_per_tx |-> 100000000]
ConsensusParametersSamples ==
    {ConsensusParameters_default,
     [max_inputs |-> 8, max_gas_per_tx |-> 1000],
     [max_inputs |-> 255, max_gas_per_tx |-> 1]}

\* the supplied parameters ignored
always_default(opt) == ConsensusParameters_default

\* Option::unwrap_or_default
unwrap_or_default(opt) == IF opt.some THEN opt.val ELSE ConsensusParameters_default

\* serde_json::to_value(ConsensusParameters): an object of numbers
ConsensusParameters_to_value(p) == [k \in DOMAIN p |-> JNum(p[k])]

\* utxo_id.output_index() as u64: the u8 widened
u8_as_u64(b) == <<0, 0, 0, b>>

\* The CoinConfig that get_node_config_json builds of one (UtxoId, Coin)
CoinConfig_of(pair) ==
    LET utxo_id == pair[1]
        coin == pair[2]
    IN  [tx_id |-> Some(utxo_id.tx_id),
         output_index |-> Some(u8_as_u64(utxo_id.output_index)),
         block_created |-> Some(coin.block_created),
         maturity |-> Some(coin.maturity),
         owner |-> coin.owner,
         amount |-> coin.amount,
         asset_id |-> coin.asset_id]

\* the coins rendered last to first
coin_configs_of_reversed(cs) ==
    [i \in 1..Len(cs) |-> CoinConfig_to_value(CoinConfig_of(cs[Len(cs) + 1 - i]))]

\* coins.into_iter().map(...).collect()
coin_configs_of(cs) == [i \in 1..Len(cs) |-> CoinConfig_to_value(CoinConfig_of(cs[i]))]

\* get_node_config_json: Ok(document), or Err where an expect() panics
get_node_config_json(cs, cpc) ==
    LET coin_configs == coin_configs_of(cs)
        result == to_string(coin_configs)
        parsed == from_str(result)
        consensus_parameters == ConsensusParameters_to_value(unwrap_or_default(cpc))
    IN  IF ~parsed.ok THEN Err("Failed to build config_with_coins JSON")
        ELSE Ok([chain_name |-> "local_testnet",
                 block_production |-> "Instant",
                 parent_network |-> [type |-> "LocalTest"],
                 initial_state |-> [coins |-> parsed.val],
                 transaction_parameters |-> consensus_parameters])

-----------------------------------------------------------------------------
(* server_health_check *)

\* client.health().await.unwrap_or(false)
unwrap_or_false(outcome) == outcome = "healthy"

\* the loop test off by one
loop_condition_inclusive(a, h) == a >= 0 /\ ~h

\* while attempts > 0 && !healthy
loop_condition(a, h) == a > 0 /\ ~h

ProbeOutcomes == {"healthy", "unhealthy", "error"}

-----------------------------------------------------------------------------
(* Inputs *)

\* lowercase hex text of a byte string, digit by digit
LowerHexOf(bytes) ==
    [i \in 1..(2 * Len(bytes)) |->
        IF i % 2 = 1
        THEN HEX_CHARS_LOWER[(bytes[(i + 1) \div 2] \div 16) + 1]
        ELSE HEX_CHARS_LOWER[(bytes[i \div 2] % 16) + 1]]

\* the eight big-endian bytes of a u64 given by its limbs
BytesOfWord(v) ==
    <<v[1] \div 256, v[1] % 256, v[2] \div 256, v[2] % 256,
      v[3] \div 256, v[3] % 256, v[4] \div 256, v[4] % 256>>

RECURSIVE TrimLeadingZeroBytes(_)
TrimLeadingZeroBytes(bytes) ==
    IF bytes # <<>> /\ Head(bytes) = 0 THEN TrimLeadingZeroBytes(Tail(bytes)) ELSE bytes

\* byte strings handed, hex-encoded, to the number decoder
NumByteInputs ==
    SeqsUpTo(NumByteSamples, MaxNumBytes)
        \cup {TrimLeadingZeroBytes(BytesOfWord(v)) : v \in U64Samples}
        \cup {<<1, 2, 3, 4, 5, 6, 7, 8, 255>>, <<1, 2, 3, 4, 5, 6, 7, 8>>}

Fill(b) == [i \in 1..BYTES32_LEN |-> b]

UtxoIdSamples ==
    {[tx_id |-> Fill(0), output_index |-> 0], [tx_id |-> Fill(171), output_index |-> 255]}
CoinSamples ==
    {[owner |-> Fill(17), amount |-> <<0, 0, 0, 1000>>, asset_id |-> Fill(34),
      maturity |-> <<0, 0>>, block_created |-> <<0, 1>>],
     [owner |-> Fill(255), amount |-> <<65535, 65535, 65535, 65535>>, asset_id |-> Fill(0),
      maturity |-> <<1, 0>>, block_created |-> <<0, 0>>]}
CoinPairSamples == UtxoIdSamples \X CoinSamples

OptionOf(S) == {None} \cup {Some(x) : x \in S}

CoinConfigSamples ==
    [tx_id : OptionOf({Fill(171)}),
     output_index : OptionOf({<<0, 0, 0, 255>>}),
     block_created : OptionOf({<<0, 1>>}),
     maturity : OptionOf({<<0, 0>>}),
     owner : {Fill(17)},
     amount : {<<0, 0, 0, 1000>>, <<0, 0, 0, 0>>},
     asset_id : {Fill(34)}]

-----------------------------------------------------------------------------
(* Initial states: one call of one entry point, with its input *)

HexIdle ==
    /\ hexPc = "idle" /\ hexSource = NoValue /\ target = <<>> /\ targetLen = 0
    /\ raw_string = <<>> /\ hexResult = NoValue
NumIdle ==
    /\ numPc = "idle" /\ numSource = NoValue /\ number = <<>> /\ numBytes = <<>>
    /\ numText = <<>> /\ numResult = NoValue
CfgIdle ==
    /\ cfgPc = "idle" /\ coins = <<>> /\ consensus_parameters_config = None
    /\ config = NoValue /\ coin_config = NoValue /\ coin_value = NoValue
HealthIdle ==
    /\ healthPc = "idle" /\ attempts = 0 /\ healthy = FALSE /\ probes = <<>>

\* a value of a fixed-length byte type to serialize and read back, or a raw
\* text to deserialize into such a type
InitHex ==
    /\ NumIdle /\ CfgIdle /\ HealthIdle
    /\ hexResult = NoValue
    /\ targetLen \in 1..MaxTargetLen
    /\ \/ /\ hexSource = "value"
          /\ target \in [1..targetLen -> ByteSamples]
                          \cup {[i \in 1..targetLen |-> b] : b \in 0..255}
          /\ raw_string = <<>>
          /\ hexPc = "serialize"
       \/ /\ hexSource = "text"
          /\ target = <<>>
          /\ raw_string \in SeqsUpTo(TextChars, MaxText)
          /\ hexPc = "deserialize"

\* a u64 or a BlockHeight to serialize and read back, or a text to
\* deserialize as a Word: the hex of a byte string, with or without the
\* prefix, or a raw text
InitNumber ==
    /\ HexIdle /\ CfgIdle /\ HealthIdle
    /\ numResult = NoValue
    /\ \/ /\ numSource = "u64"
          /\ number \in U64Samples
          /\ numBytes = <<>> /\ numText = <<>>
          /\ numPc = "serialize"
       \/ /\ numSource = "height"
          /\ number \in HeightSamples
          /\ numBytes = <<>> /\ numText = <<>>
          /\ numPc = "serialize"
       \/ /\ numSource = "bytes"
          /\ number = <<>>
          /\ numBytes \in NumByteInputs
          /\ numText \in {<<"0", "x">> \o LowerHexOf(numBytes), LowerHexOf(numBytes)}
          /\ numPc = "deserialize"
       \/ /\ numSource = "text"
          /\ number = <<>> /\ numBytes = <<>>
          /\ numText \in SeqsUpTo(TextChars, MaxText - 2)
          /\ numPc = "deserialize"

\* a coin list and optional parameters for get_node_config_json, or one
\* CoinConfig to serialize
InitConfig ==
    /\ HexIdle /\ NumIdle /\ HealthIdle
    /\ config = NoValue /\ coin_value = NoValue
    /\ \/ /\ cfgPc = "build"
          /\ coins \in SeqsUpTo(CoinPairSamples, MaxCoins)
          /\ consensus_parameters_config \in OptionOf(ConsensusParametersSamples)
          /\ coin_config = NoValue
       \/ /\ cfgPc = "serialize"
          /\ coins = <<>>
          /\ consensus_parameters_config = None
          /\ coin_config \in CoinConfigSamples

\* server_health_check entered
InitHealth ==
    /\ HexIdle /\ NumIdle /\ CfgIdle
    /\ healthPc = "start"
    /\ attempts = INITIAL_ATTEMPTS
    /\ healthy = FALSE
    /\ probes = <<>>

Init == InitHex \/ InitNumber \/ InitConfig \/ InitHealth

-----------------------------------------------------------------------------
(* Actions *)

\* HexType::serialize_as of the value
HexSerialize ==
    /\ hexPc = "serialize"
    /\ raw_string' = HexType_serialize_as(target)
    /\ hexPc' = "deserialize"
    /\ UNCHANGED <<hexSource, target, targetLen, hexResult, numVars, cfgVars, healthVars>>

\* HexType::deserialize_as::<T> of the text, T of length targetLen
HexDeserialize ==
    /\ hexPc = "deserialize"
    /\ hexResult' = HexType_deserialize_as(raw_string, FixedBytes(targetLen))
    /\ hexPc' = "done"
    /\ UNCHANGED <<hexSource, target, targetLen, raw_string, numVars, cfgVars, healthVars>>

\* HexNumber::serialize_as of a u64 or of a BlockHeight
NumberSerialize ==
    /\ numPc = "serialize"
    /\ numText' = IF numSource = "height"
                  THEN HexNumber_serialize_as_height(number)
                  ELSE HexNumber_serialize_as(number)
    /\ numPc' = "deserialize"
    /\ UNCHANGED <<numSource, number, numBytes, numResult, hexVars, cfgVars, healthVars>>

\* <HexNumber as DeserializeAs<Word>>::deserialize_as of the text
NumberDeserialize ==
    /\ numPc = "deserialize"
    /\ numResult' = HexNumber_deserialize_as(numText)
    /\ numPc' = "done"
    /\ UNCHANGED <<numSource, number, numBytes, numText, hexVars, cfgVars, healthVars>>

\* get_node_config_json(coins, consensus_parameters_config)
GetNodeConfigJson ==
    /\ cfgPc = "build"
    /\ LET r == get_node_config_json(coins, consensus_parameters_config)
       IN  IF r.ok
           THEN config' = r.val /\ cfgPc' = "done"
           ELSE config' = config /\ cfgPc' = "panicked"
    /\ UNCHANGED <<coins, consensus_parameters_config, coin_config, coin_value,
                   hexVars, numVars, healthVars>>

\* serde_json::to_value(&coin_config)
SerializeCoinConfig ==
    /\ cfgPc = "serialize"
    /\ coin_value' = CoinConfig_to_value(coin_config)
    /\ cfgPc' = "serialized"
    /\ UNCHANGED <<coins, consensus_parameters_config, config, coin_config,
                   hexVars, numVars, healthVars>>

\* let mut healthy = client.health().await.unwrap_or(false)
FirstProbe ==
    /\ healthPc = "start"
    /\ \E outcome \in ProbeOutcomes :
        /\ healthy' = unwrap_or_false(outcome)
        /\ probes' = Append(probes, outcome)
    /\ healthPc' = "loop"
    /\ UNCHANGED <<attempts, hexVars, numVars, cfgVars>>

\* the loop test passes: healthy = client.health().await.unwrap_or(false)
RetryProbe ==
    /\ healthPc = "loop"
    /\ loop_condition(attempts, healthy)
    /\ \E outcome \in ProbeOutcomes :
        /\ healthy' = unwrap_or_false(outcome)
        /\ probes' = Append(probes, outcome)
    /\ healthPc' = "sleep"
    /\ UNCHANGED <<attempts, hexVars, numVars, cfgVars>>

\* tokio::time::sleep(..).await; attempts -= 1
SleepAndCount ==
    /\ healthPc = "sleep"
    /\ attempts' = attempts - 1
    /\ healthPc' = "loop"
    /\ UNCHANGED <<healthy, probes, hexVars, numVars, cfgVars>>

\* the loop test fails: if !healthy { panic!(..) }, else return
HealthCheckEnd ==
    /\ healthPc = "loop"
    /\ ~loop_condition(attempts, healthy)
    /\ healthPc' = IF ~healthy THEN "panicked" ELSE "returned"
    /\ UNCHANGED <<attempts, healthy, probes, hexVars, numVars, cfgVars>>

NextHex == HexSerialize \/ HexDeserialize
NextNumber == NumberSerialize \/ NumberDeserialize
NextConfig == GetNodeConfigJson \/ SerializeCoinConfig
NextHealth == FirstProbe \/ RetryProbe \/ SleepAndCount \/ HealthCheckEnd

Next == NextHex \/ NextNumber \/ NextConfig \/ NextHealth

Spec == Init /\ [][Next]_vars
SpecHex == InitHex /\ [][NextHex]_vars
SpecNumber == InitNumber /\ [][NextNumber]_vars
SpecConfig == InitConfig /\ [][NextConfig]_vars
\* every probe answers, and the task is polled until it ends
SpecHealth == InitHealth /\ [][NextHealth]_vars /\ WF_vars(NextHealth)

-----------------------------------------------------------------------------
(* Properties *)

IsHexDigit(c) ==
    c \in {"0", "1", "2", "3", "4", "5", "6", "7", "8", "9",
           "a", "b", "c", "d", "e", "f", "A", "B", "C", "D", "E", "F"}

DigitValue(c) ==
    CASE c = "0" -> 0 [] c = "1" -> 1 [] c = "2" -> 2 [] c = "3" -> 3
      [] c = "4" -> 4 [] c = "5" -> 5 [] c = "6" -> 6 [] c = "7" -> 7
      [] c = "8" -> 8 [] c = "9" -> 9
      [] c \in {"a", "A"} -> 10 [] c \in {"b", "B"} -> 11 [] c \in {"c", "C"} -> 12
      [] c \in {"d", "D"} -> 13 [] c \in {"e", "E"} -> 14 [] c \in {"f", "F"} -> 15

ToLower(c) ==
    CASE c = "A" -> "a" [] c = "B" -> "b" [] c = "C" -> "c"
      [] c = "D" -> "d" [] c = "E" -> "e" [] c = "F" -> "f" [] OTHER -> c

ToUpper(c) ==
    CASE c = "a" -> "A" [] c = "b" -> "B" [] c = "c" -> "C"
      [] c = "d" -> "D" [] c = "e" -> "E" [] c = "f" -> "F" [] OTHER -> c

HasPrefix0x(t) == Len(t) >= 2 /\ t[1] = "0" /\ t[2] = "x"

\* the text with one leading "0x" removed, if it has one
StripOnePrefix(t) == IF HasPrefix0x(t) THEN SubSeq(t, 3, Len(t)) ELSE t

\* hex digits only, two per byte
IsHexPayload(h) == Len(h) % 2 = 0 /\ \A i \in 1..Len(h) : IsHexDigit(h[i])

PayloadBytes(h) ==
    [i \in 1..(Len(h) \div 2) |-> DigitValue(h[2 * i - 1]) * 16 + DigitValue(h[2 * i])]

Zeros(n) == [i \in 1..n |-> 0]

\* C1: a value of a fixed-length byte type, serialized by serde_hex::serialize
\* and read back by serde_hex::deserialize into the same type, comes back
\* unchanged: the decode succeeds and returns the value.
C1_RoundTrip ==
    (hexPc = "done" /\ hexSource = "value") => hexResult = Ok(target)

C1_Witness ==
    /\ hexPc = "done" /\ hexSource = "value"
    /\ target = <<10, 171>>
    /\ raw_string = <<"0", "x", "0", "a", "a", "b">>

\* C5 (as claimed): decode_bytes removes at most one leading "0x"; if what
\* is left has a character that is no hex digit, or an odd length, the
\* result is InvalidHex; otherwise, if its byte count is not the target's
\* length, the result is LengthMismatch.
C5_AtMostOnePrefixRemoved ==
    (hexPc = "done" /\ hexSource = "text") =>
        LET rest == StripOnePrefix(raw_string)
        IN  IF ~IsHexPayload(rest) THEN hexResult = Err("InvalidHex")
            ELSE (Len(rest) \div 2 # targetLen => hexResult = Err("LengthMismatch"))

\* C6: for a hex payload h of the target type's length, the text h and the
\* text "0x" h both decode, to the same value, the bytes the digits spell,
\* whatever the case of the digits a-f.
C6_PrefixAndCaseTolerance ==
    (hexPc = "done" /\ hexSource = "text") =>
        LET h == StripOnePrefix(raw_string)
            T == FixedBytes(targetLen)
        IN  (IsHexPayload(h) /\ Len(h) = 2 * targetLen) =>
                /\ hexResult = Ok(PayloadBytes(h))
                /\ serde_hex_deserialize(h, T) = hexResult
                /\ serde_hex_deserialize(<<"0", "x">> \o h, T) = hexResult
                /\ serde_hex_deserialize([i \in 1..Len(h) |-> ToLower(h[i])], T) = hexResult
                /\ serde_hex_deserialize([i \in 1..Len(h) |-> ToUpper(h[i])], T) = hexResult

C6_Witness ==
    /\ hexPc = "done" /\ hexSource = "text"
    /\ raw_string = <<"0", "x", "a", "A">>
    /\ targetLen = 1
    /\ hexResult = Ok(<<170>>)

\* C2: the text "0x" followed by the lowercase hex of k <= 8 bytes decodes,
\* as a Word, to the number whose eight big-endian bytes are those k bytes
\* after 8 - k zero bytes; "0x" alone decodes to 0.
C2_PaddedRoundTrip ==
    (/\ numPc = "done" /\ numSource = "bytes"
     /\ Len(numBytes) <= 8
     /\ numText = <<"0", "x">> \o LowerHexOf(numBytes)) =>
        /\ numResult.ok
        /\ BytesOfWord(numResult.val) = Zeros(8 - Len(numBytes)) \o numBytes
        /\ \A j \in 1..4 : numResult.val[j] \in 0..65535
        /\ (numBytes = <<>> => numResult = Ok(<<0, 0, 0, 0>>))

C2_Witness ==
    /\ numPc = "done" /\ numSource = "bytes"
    /\ numBytes = <<3, 232>>
    /\ numText = <<"0", "x", "0", "3", "e", "8">>
    /\ numResult = Ok(<<0, 0, 0, 1000>>)

Pow16(n) == IF n = 0 THEN 1 ELSE IF n = 1 THEN 16 ELSE IF n = 2 THEN 256 ELSE 4096

\* the u64 that is serialized: the number itself, or the block height widened
SerializedWord == IF numSource = "height" THEN <<0, 0>> \o number ELSE number

\* C3: a u64, or a block height, is serialized as exactly 18 characters:
\* "0x" and the 16 lowercase hex digits of its 8 big-endian bytes; 0 gives
\* sixteen "0" digits and 1000 gives 0x00000000000003e8.
C3_CanonicalWidth ==
    (numSource \in {"u64", "height"} /\ numPc \in {"deserialize", "done"}) =>
        LET v == SerializedWord
        IN  /\ Len(numText) = 18
            /\ numText[1] = "0" /\ numText[2] = "x"
            /\ \A j \in 1..4 : \A d \in 1..4 :
                  numText[2 + 4 * (j - 1) + d]
                      = HEX_CHARS_LOWER[((v[j] \div Pow16(4 - d)) % 16) + 1]
            /\ (v = <<0, 0, 0, 0>> =>
                  numText = <<"0", "x", "0", "0", "0", "0", "0", "0", "0", "0",
                              "0", "0", "0", "0", "0", "0", "0", "0">>)
            /\ (v = <<0, 0, 0, 1000>> =>
                  numText = <<"0", "x", "0", "0", "0", "0", "0", "0", "0", "0",
                              "0", "0", "0", "0", "0", "3", "e", "8">>)

C3_Witness ==
    /\ numSource = "u64" /\ numPc = "done"
    /\ number = <<0, 0, 0, 1000>>
    /\ Len(numText) = 18

\* C4: a valid hex text (an optional "0x", then hex digits, two per byte) of
\* more than 8 bytes decodes, as a Word, to the Overflow error and to no
\* value, also when the bytes before the last 8 are all zero.
C4_OverflowRejected ==
    (numPc = "done" /\ IsHexPayload(StripOnePrefix(numText))
     /\ Len(StripOnePrefix(numText)) \div 2 > 8) =>
        numResult = Err("Overflow")

C4_Witness ==
    /\ numPc = "done"
    /\ numBytes = <<0, 0, 0, 0, 0, 0, 0, 0, 1>>
    /\ HasPrefix0x(numText)
    /\ numResult = Err("Overflow")

\* the record the assembler is to emit for one (identifier, coin) pair
ExpectedCoinRecord(pair) ==
    LET id == pair[1]
        coin == pair[2]
        Hex(bytes) == JStr(<<"0", "x">> \o LowerHexOf(bytes))
        HeightBytes(h) == <<0, 0, 0, 0, h[1] \div 256, h[1] % 256, h[2] \div 256, h[2] % 256>>
    IN  [tx_id |-> Hex(id.tx_id),
         output_index |-> Hex(<<0, 0, 0, 0, 0, 0, 0, id.output_index>>),
         block_created |-> Hex(HeightBytes(coin.block_created)),
         maturity |-> Hex(HeightBytes(coin.maturity)),
         owner |-> Hex(coin.owner),
         amount |-> Hex(BytesOfWord(coin.amount)),
         asset_id |-> Hex(coin.asset_id)]

\* C7: initial_state.coins of the document has as many records as the input
\* has pairs, and its i-th record renders the i-th pair: nothing is dropped,
\* duplicated or reordered, equal pairs included.
C7_CoinsInInputOrder ==
    cfgPc = "done" =>
        LET arr == config.initial_state.coins
        IN  /\ Len(arr) = Len(coins)
            /\ \A i \in 1..Len(coins) : arr[i] = ExpectedCoinRecord(coins[i])

C7_Witness ==
    /\ cfgPc = "done"
    /\ Len(coins) = 3
    /\ coins[1] = coins[2]
    /\ coins[3] # coins[1]
    /\ Len(config.initial_state.coins) = 3

\* each optional field is a key of the record exactly when it is set, and no
\* key holds null
OmitsUnset(cc, rec) ==
    /\ \A f \in OptionalFields : (f \in DOMAIN rec) <=> cc[f].some
    /\ RequiredFields \subseteq DOMAIN rec
    /\ DOMAIN rec \subseteq RequiredFields \cup OptionalFields
    /\ \A k \in DOMAIN rec : rec[k].json # "null"

\* C8: in a serialized coin record each of tx_id, output_index,
\* block_created, maturity is a key exactly when it is set in the record
\* rendered, and no key holds null; with none of the four set the keys are
\* owner, amount and asset_id only.
C8_UnsetFieldsOmitted ==
    /\ cfgPc = "serialized" =>
          /\ OmitsUnset(coin_config, coin_value)
          /\ (\A f \in OptionalFields : ~coin_config[f].some) =>
                DOMAIN coin_value = {"owner", "amount", "asset_id"}
    /\ cfgPc = "done" =>
          \A i \in 1..Len(coins) :
              OmitsUnset(CoinConfig_of(coins[i]), config.initial_state.coins[i])

C8_Witness ==
    /\ cfgPc = "serialized"
    /\ \A f \in OptionalFields : ~coin_config[f].some
    /\ coin_config.amount = <<0, 0, 0, 1000>>
    /\ DOMAIN coin_value = {"owner", "amount", "asset_id"}

\* C9: the document has the five top-level keys chain_name,
\* block_production, parent_network, initial_state, transaction_parameters
\* and no other; the first three hold the same constants for every input;
\* transaction_parameters renders the supplied parameters, or the default
\* parameters when none are supplied.
C9_DocumentShape ==
    cfgPc = "done" =>
        LET p == IF consensus_parameters_config.some
                 THEN consensus_parameters_config.val
                 ELSE ConsensusParameters_default
        IN  /\ DOMAIN config = {"chain_name", "block_production", "parent_network",
                                "initial_state", "transaction_parameters"}
            /\ config.chain_name = "local_testnet"
            /\ config.block_production = "Instant"
            /\ config.parent_network = [type |-> "LocalTest"]
            /\ DOMAIN config.initial_state = {"coins"}
            /\ config.transaction_parameters
                  = [max_inputs |-> JNum(p.max_inputs),
                     max_gas_per_tx |-> JNum(p.max_gas_per_tx)]

C9_Witness ==
    /\ cfgPc = "done"
    /\ coins = <<>>
    /\ consensus_parameters_config.some
    /\ consensus_parameters_config.val # ConsensusParameters_default
    /\ config.transaction_parameters.max_inputs = JNum(8)

NoneHealthy == \A i \in 1..Len(probes) : probes[i] # "healthy"
Ended == healthPc \in {"returned", "panicked"}

\* at most 6 probes; only the last probe can have reported healthy; a normal
\* return had a healthy probe; a panic had 6 probes, none healthy
HealthCheckSafe ==
    healthPc # "idle" =>
        /\ Len(probes) <= 6
        /\ \A i \in 1..(Len(probes) - 1) : probes[i] # "healthy"
        /\ healthPc = "returned" => ~NoneHealthy
        /\ healthPc = "panicked" => (Len(probes) = 6 /\ NoneHealthy)

\* C10: whatever the probes answer, server_health_check ends after at most
\* 6 probes, probes no more once a probe reported healthy, returns exactly
\* when some probe reported healthy and panics exactly when 6 probes all
\* reported not healthy.
C10_HealthCheck ==
    /\ []HealthCheckSafe
    /\ <>Ended
    /\ (~NoneHealthy) ~> (healthPc = "returned")
    /\ (Len(probes) = 6 /\ NoneHealthy) ~> (healthPc = "panicked")

C10_Witness ==
    /\ healthPc = "returned"
    /\ Len(probes) = 6
    /\ probes[6] = "healthy"
    /\ attempts = 0

=============================================================================
